---------------------------- MODULE Spec2Model ----------------------------
(***************************************************************************)
(* A model of launchy's CanvasLayout (src/src/canvas/layout.rs): the       *)
(* rotation algebra, the local/global coordinate transforms, device        *)
(* registration (add), client pixel writes, flush with brightness remap,   *)
(* event routing to the client sink and the bounded polling adapter.       *)
(*                                                                         *)
(* Machine integers are scaled from 32 bits to WordBits bits; the          *)
(* arithmetic keeps the two's-complement behaviour of the casts (`as`      *)
(* always wraps) and of the operators + - and unary - (which wrap in a     *)
(* build without overflow checks and panic in a build with them).          *)
(***************************************************************************)
EXTENDS Integers, Sequences, FiniteSets, TLC

VARIABLES
    overflow_checks,   \* build profile: TRUE = arithmetic overflow panics
    devices,           \* CanvasLayout.devices: the device slots, in order
    coordinate_map,    \* CanvasLayout.coordinate_map: global (x, y) -> Pixel
    light_threshold,   \* CanvasLayout.light_threshold
    pc,                \* the owning context: "idle", "flushing", "panicked"
    flush_next,        \* flush: index of the next device the loop flushes
    flushed,           \* flush: the device indices flushed by this call, in order
    result,            \* what the last completed call returned
    ops,               \* number of client calls made so far
    last_written,      \* global (x, y) -> the pending color last set by the client
    sink,              \* the client callback: times invoked, and the last message
    emitted,           \* the devices' events: how many, and the last one
    polling,           \* TRUE when the layout was made by new_polling
    queue,             \* new_polling: the messages in the channel, oldest first
    blocked,           \* new_polling: per device, the send its delivery context waits in
    sent,              \* new_polling: per device, the number of events it delivered
    received,          \* new_polling: per device, the number of its messages received
    polled,            \* new_polling: what the last poll returned
    t_pc,              \* transform harness: position
    t_in,              \* transform harness: the inputs drawn at Init
    t_out,             \* transform harness: result of the first call
    t_back             \* transform harness: result of the inverse call

layout_vars == <<devices, coordinate_map, light_threshold, pc, flush_next,
                 flushed, result, ops, last_written>>
routing_vars == <<sink, emitted>>
polling_vars == <<polling, queue, blocked, sent, received, polled>>
harness_vars == <<t_pc, t_in, t_out, t_back>>
vars == <<overflow_checks, layout_vars, routing_vars, polling_vars, harness_vars>>

---------------------------------------------------------------------------
\* Machine integers

\* Width of u32 / i32 in the model (32 in the code).
WordBits == 5

Pow2(n) == 2 ^ n

UMod == Pow2(WordBits)
UMax == UMod - 1
IMax == Pow2(WordBits - 1) - 1
IMin == 0 - Pow2(WordBits - 1)

U32 == 0 .. UMax
I32 == IMin .. IMax

\* `u as i32`: reinterpret the bits.
AsI32(u) == IF u > IMax THEN u - UMod ELSE u

\* `i as u32`: reinterpret the bits.
AsU32(i) == i % UMod

\* The value of a signed operation whose exact result is v: v when it fits,
\* otherwise a panic (overflow checks on) or the wrapped value (off).
Val(v) == [panic |-> FALSE, v |-> v]
Overflowed == [panic |-> TRUE, v |-> 0]
CheckedI32(v) ==
    IF v \in I32 THEN Val(v)
    ELSE IF overflow_checks THEN Overflowed
    ELSE Val(AsI32(v % UMod))

AddI32(a, b) == CheckedI32(a + b)
SubI32(a, b) == CheckedI32(a - b)
NegI32(a) == CheckedI32(0 - a)

---------------------------------------------------------------------------
\* Rotation algebra

Rotation == {"None", "Left", "Right", "UpsideDown"}

\* impl Neg for Rotation
Neg(rot) ==
    CASE rot = "None" -> "None"
      [] rot = "UpsideDown" -> "UpsideDown"
      [] rot = "Left" -> "Right"
      [] rot = "Right" -> "Left"

Point(x, y) == [panic |-> FALSE, x |-> x, y |-> y]
Panicked == [panic |-> TRUE, x |-> 0, y |-> 0]

\* A pair of signed results; a panic in either is a panic of the whole.
Pair(a, b) == IF a.panic \/ b.panic THEN Panicked ELSE Point(a.v, b.v)

translateMirror(rot, x, y) ==
    CASE rot = "None" -> Pair(Val(x), Val(y))
      [] rot = "UpsideDown" -> Pair(NegI32(x), NegI32(y))
      [] rot = "Left" -> Pair(Val(y), NegI32(x))
      [] rot = "Right" -> Pair(Val(y), NegI32(x))

\* Rotation::translate
translate(rot, x, y) ==
    CASE rot = "None" -> Pair(Val(x), Val(y))
      [] rot = "UpsideDown" -> Pair(NegI32(x), NegI32(y))
      [] rot = "Left" -> Pair(NegI32(y), Val(x))
      [] rot = "Right" -> Pair(Val(y), NegI32(x))

to_local_same_rot(x, y, rot, x_offset, y_offset) ==
    LET d == Pair(SubI32(AsI32(x), AsI32(x_offset)),
                  SubI32(AsI32(y), AsI32(y_offset)))
        l == IF d.panic THEN Panicked ELSE translate(rot, d.x, d.y)
    IN  IF l.panic THEN Panicked ELSE Point(AsU32(l.x), AsU32(l.y))

to_local_adds_offset(x, y, rot, x_offset, y_offset) ==
    LET d == Pair(AddI32(AsI32(x), AsI32(x_offset)),
                  AddI32(AsI32(y), AsI32(y_offset)))
        l == IF d.panic THEN Panicked ELSE translate(Neg(rot), d.x, d.y)
    IN  IF l.panic THEN Panicked ELSE Point(AsU32(l.x), AsU32(l.y))

\* fn to_local
to_local(x, y, rot, x_offset, y_offset) ==
    LET d == Pair(SubI32(AsI32(x), AsI32(x_offset)),
                  SubI32(AsI32(y), AsI32(y_offset)))
        l == IF d.panic THEN Panicked ELSE translate(Neg(rot), d.x, d.y)
    IN  IF l.panic THEN Panicked ELSE Point(AsU32(l.x), AsU32(l.y))

\* fn to_global
to_global(x, y, rot, x_offset, y_offset) ==
    LET t == translate(rot, AsI32(x), AsI32(y))
        g == IF t.panic THEN Panicked
             ELSE Pair(AddI32(t.x, AsI32(x_offset)), AddI32(t.y, AsI32(y_offset)))
    IN  IF g.panic THEN Panicked ELSE Point(AsU32(g.x), AsU32(g.y))

---------------------------------------------------------------------------
\* Colors: a Color is three channels, each the rational <<n, d>> that is
\* the value of the float the code holds.

RECURSIVE GCD(_, _)
GCD(a, b) == IF b = 0 THEN a ELSE GCD(b, a % b)

Abs(n) == IF n < 0 THEN 0 - n ELSE n

Rat(n, d) ==
    LET g == GCD(Abs(n), Abs(d))
        sg == IF d < 0 THEN 0 - 1 ELSE 1
    IN  <<(sg * n) \div g, (sg * d) \div g>>

RAdd(a, b) == Rat(a[1] * b[2] + b[1] * a[2], a[2] * b[2])
RSub(a, b) == Rat(a[1] * b[2] - b[1] * a[2], a[2] * b[2])
RMul(a, b) == Rat(a[1] * b[1], a[2] * b[2])
RDiv(a, b) == Rat(a[1] * b[2], a[2] * b[1])

One == <<1, 1>>
Zero == <<0, 1>>
Quarter == <<1, 4>>
Half == <<1, 2>>

\* The mantissa of the floats (24 bits in f32), the leading bit included.
MantissaBits == 4

\* The binary scalings a value is tried at when it is rounded.
Scalings == 0 - 2 .. MantissaBits + 10

\* The denominators of the floats of this model.
PowersOfTwo == {Pow2(j) : j \in 0 .. MantissaBits + 10}

\* A value as the float nearest to it, ties to the even mantissa: the
\* rounding every f32 operation ends with (the exponent range of f32 is not
\* reached by the values of this model). A value that is a float, a mantissa
\* of at most MantissaBits bits over a power of two, is its own rounding.
Round(q) ==
    IF q[1] = 0 THEN Zero
    ELSE IF q[2] \in PowersOfTwo /\ Abs(q[1]) < Pow2(MantissaBits) THEN q
    ELSE LET n == Abs(q[1])
             d == q[2]
             Num(k) == IF k >= 0 THEN n * Pow2(k) ELSE n
             Den(k) == IF k >= 0 THEN d ELSE d * Pow2(0 - k)
             k == CHOOSE j \in Scalings :
                      /\ Pow2(MantissaBits - 1) * Den(j) <= Num(j)
                      /\ Num(j) < Pow2(MantissaBits) * Den(j)
             fl == Num(k) \div Den(k)
             r == Num(k) % Den(k)
             mant == IF 2 * r > Den(k) \/ (2 * r = Den(k) /\ fl % 2 = 1)
                     THEN fl + 1 ELSE fl
             sg == IF q[1] < 0 THEN 0 - 1 ELSE 1
         IN  Rat(sg * mant * (IF k < 0 THEN Pow2(0 - k) ELSE 1),
                 IF k >= 0 THEN Pow2(k) ELSE 1)

\* f32 + - * /
FAdd(a, b) == Round(RAdd(a, b))
FSub(a, b) == Round(RSub(a, b))
FMul(a, b) == Round(RMul(a, b))
FDiv(a, b) == Round(RDiv(a, b))

transform_channel_swapped(c, source, target) ==
    FAdd(FDiv(FMul(FSub(c, One), FSub(One, source)), FSub(One, target)), One)

transform_channel_exact(c, source, target) ==
    RAdd(RDiv(RMul(RSub(c, One), RSub(One, target)), RSub(One, source)), One)

\* transform_color, on one channel:
\* (color - 1.0) * (1.0 - target) / (1.0 - source) + 1.0
transform_channel(c, source, target) ==
    FAdd(FDiv(FMul(FSub(c, One), FSub(One, target)), FSub(One, source)), One)

\* fn transform_color
transform_color(color, source, target) ==
    [ch \in 1 .. 3 |-> transform_channel(color[ch], source, target)]

\* Color::BLACK, the color of every pad of a freshly constructed device.
BLACK == <<Zero, Zero, Zero>>
\* The colors the client writes.
Palette == {<<One, Zero, Quarter>>, <<Half, Half, Half>>}
\* The color a device may come painted with.
Painted == <<Quarter, Quarter, One>>

\* The values set_light_threshold is called with.
Thresholds == {Half}

---------------------------------------------------------------------------
\* Device capability (the Canvas a factory returns)

Kinds == {"s", "mk2"}

\* Canvas::iter: the addressable pads of a device, in enumeration order.
PadSeq(kind) ==
    IF kind = "s" THEN <<(<<0, 0>>), (<<1, 0>>), (<<0, 1>>)>>
    ELSE <<(<<0, 0>>), (<<1, 0>>)>>

Pads(kind) == {PadSeq(kind)[k] : k \in 1 .. Len(PadSeq(kind))}

\* Canvas::bounding_box
bounding_box_of(kind) == IF kind = "s" THEN <<2, 2>> ELSE <<2, 1>>

\* Canvas::lowest_visible_brightness
lowest_visible_brightness_of(kind) == IF kind = "s" THEN Half ELSE Quarter

\* A device as its factory returns it: every pad shows BLACK; an "s" device
\* comes with its first pad already painted (a pending color not yet flushed),
\* an "mk2" device comes unpainted.
NewCanvas(kind) ==
    [kind |-> kind,
     pending |-> [p \in Pads(kind) |->
                     IF kind = "s" /\ p = <<0, 0>> THEN Painted ELSE BLACK],
     shown |-> [p \in Pads(kind) |-> BLACK]]

\* Canvas::flush of a device that succeeds: the pending colors reach the pads.
DeviceFlushed(canvas) == [canvas EXCEPT !.shown = canvas.pending]

---------------------------------------------------------------------------
\* CanvasLayout

MaxDevices == 2
MaxOps == 3

\* The offsets add is called with: on the origin, beside a device on the
\* origin, and one row down.
Offsets == {<<0, 0>>, <<2, 0>>, <<0, 1>>}
\* The errors a factory fails with.
FactoryErrors == {"E1", "E2"}

NoDiag == [x |-> 0, y |-> 0, old |-> 0, new |-> 0]
NoArgs == [kind |-> "", rotation |-> "None", x |-> 0, y |-> 0]
NoResult ==
    [op |-> "new", res |-> "Ok", err |-> "", raised |-> "", failed |-> 0,
     factory_calls |-> 0, diag |-> NoDiag, args |-> NoArgs]

\* struct Pixel
Pixel(device_index, color_new, color_old) ==
    [device_index |-> device_index, color_new |-> color_new, color_old |-> color_old]

\* HashMap::insert
MapInsert(map, key, value) ==
    [k \in DOMAIN map \cup {key} |-> IF k = key THEN value ELSE map[k]]

\* CanvasLayout::new
LayoutInit ==
    /\ devices = <<>>
    /\ coordinate_map = <<>>
    /\ light_threshold = Quarter
    /\ pc = "idle"
    /\ flush_next = 0
    /\ flushed = <<>>
    /\ result = NoResult
    /\ ops = 0
    /\ last_written = <<>>

RECURSIVE InsertPadsSilently(_, _, _, _)
InsertPadsSilently(map, canvas, a, k) ==
    IF k > Len(PadSeq(canvas.kind)) THEN [res |-> "Ok", map |-> map, diag |-> NoDiag]
    ELSE
      LET pad == PadSeq(canvas.kind)[k]
          g == to_global(pad[1], pad[2], a.rotation, a.x, a.y)
          key == <<g.x, g.y>>
      IN  IF g.panic THEN [res |-> "overflow", map |-> map, diag |-> NoDiag]
          ELSE InsertPadsSilently(
                   MapInsert(map, key,
                       Pixel(Len(devices), canvas.pending[pad], canvas.shown[pad])),
                   canvas, a, k + 1)

RECURSIVE InsertPadsWrongOwner(_, _, _, _)
InsertPadsWrongOwner(map, canvas, a, k) ==
    IF k > Len(PadSeq(canvas.kind)) THEN [res |-> "Ok", map |-> map, diag |-> NoDiag]
    ELSE
      LET pad == PadSeq(canvas.kind)[k]
          g == to_global(pad[1], pad[2], a.rotation, a.x, a.y)
          key == <<g.x, g.y>>
          inserted == MapInsert(map, key,
                          Pixel(Len(devices), canvas.pending[pad], canvas.shown[pad]))
      IN  IF g.panic THEN [res |-> "overflow", map |-> map, diag |-> NoDiag]
          ELSE IF key \in DOMAIN map
          THEN [res |-> "overlap", map |-> inserted,
                diag |-> [x |-> key[1], y |-> key[2],
                          old |-> inserted[key].device_index, new |-> Len(devices)]]
          ELSE InsertPadsWrongOwner(inserted, canvas, a, k + 1)

\* CanvasLayout::add, the loop over canvas.iter() from pad number k on: the
\* map it leaves and how it ends ("Ok", or the panic that ends it).
RECURSIVE InsertPads(_, _, _, _)
InsertPads(map, canvas, a, k) ==
    IF k > Len(PadSeq(canvas.kind)) THEN [res |-> "Ok", map |-> map, diag |-> NoDiag]
    ELSE
      LET pad == PadSeq(canvas.kind)[k]
          g == to_global(pad[1], pad[2], a.rotation, a.x, a.y)
          key == <<g.x, g.y>>
          inserted == MapInsert(map, key,
                          Pixel(Len(devices), canvas.pending[pad], canvas.shown[pad]))
      IN  IF g.panic THEN [res |-> "overflow", map |-> map, diag |-> NoDiag]
          ELSE IF key \in DOMAIN map
          THEN [res |-> "overlap", map |-> inserted,
                diag |-> [x |-> key[1], y |-> key[2],
                          old |-> map[key].device_index, new |-> Len(devices)]]
          ELSE InsertPads(inserted, canvas, a, k + 1)

AddArgs(kind, rotation, x_offset, y_offset) ==
    [kind |-> kind, rotation |-> rotation, x |-> x_offset, y |-> y_offset]

\* struct LayoutDevice
LayoutDevice(canvas, rotation, x_offset, y_offset) ==
    [canvas |-> canvas, rotation |-> rotation, x |-> x_offset, y |-> y_offset]

AddPrepends(kind, rotation, x_offset, y_offset) ==
    /\ pc = "idle"
    /\ ops < MaxOps
    /\ Len(devices) < MaxDevices
    /\ \E canvas \in {NewCanvas(kind)},
          a \in {AddArgs(kind, rotation, x_offset, y_offset)} :
       \E r \in {InsertPads(coordinate_map, canvas, a, 1)} :
           /\ coordinate_map' = r.map
           /\ last_written' =
                  [k \in DOMAIN r.map |->
                      IF k \in DOMAIN last_written /\ r.map[k] = coordinate_map[k]
                      THEN last_written[k] ELSE r.map[k].color_new]
           /\ devices' =
                  IF r.res = "Ok"
                  THEN <<LayoutDevice(canvas, rotation, x_offset, y_offset)>> \o devices
                  ELSE devices
           /\ pc' = IF r.res = "Ok" THEN "idle" ELSE "panicked"
           /\ result' = [NoResult EXCEPT !.op = "add", !.res = r.res,
                             !.factory_calls = 1, !.diag = r.diag, !.args = a]
    /\ ops' = ops + 1
    /\ UNCHANGED <<overflow_checks, light_threshold, flush_next, flushed, routing_vars, polling_vars, harness_vars>>

\* CanvasLayout::add with a factory that returns a device of `kind`.
Add(kind, rotation, x_offset, y_offset) ==
    /\ pc = "idle"
    /\ ops < MaxOps
    /\ Len(devices) < MaxDevices
    /\ \E canvas \in {NewCanvas(kind)},
          a \in {AddArgs(kind, rotation, x_offset, y_offset)} :
       \E r \in {InsertPads(coordinate_map, canvas, a, 1)} :
           /\ coordinate_map' = r.map
           /\ last_written' =
                  [k \in DOMAIN r.map |->
                      IF k \in DOMAIN last_written /\ r.map[k] = coordinate_map[k]
                      THEN last_written[k] ELSE r.map[k].color_new]
           /\ devices' =
                  IF r.res = "Ok"
                  THEN Append(devices, LayoutDevice(canvas, rotation, x_offset, y_offset))
                  ELSE devices
           /\ pc' = IF r.res = "Ok" THEN "idle" ELSE "panicked"
           /\ result' = [NoResult EXCEPT !.op = "add", !.res = r.res,
                             !.factory_calls = 1, !.diag = r.diag, !.args = a]
    /\ ops' = ops + 1
    /\ UNCHANGED <<overflow_checks, light_threshold, flush_next, flushed, routing_vars, polling_vars, harness_vars>>

AddFactoryErrKeepsSlot(e) ==
    /\ pc = "idle"
    /\ ops < MaxOps
    /\ Len(devices) < MaxDevices
    /\ result' = [NoResult EXCEPT !.op = "add", !.res = "Err", !.err = e,
                      !.raised = e, !.factory_calls = 1]
    /\ devices' = Append(devices, LayoutDevice(NewCanvas("s"), "None", 0, 0))
    /\ ops' = ops + 1
    /\ UNCHANGED <<overflow_checks, coordinate_map, light_threshold, pc,
                   flush_next, flushed, last_written, routing_vars, polling_vars, harness_vars>>

\* CanvasLayout::add, at any placement, with a factory that fails with error
\* e: the `?` on the creator's result returns it before anything of the
\* layout is touched.
AddFactoryErr(e) ==
    /\ pc = "idle"
    /\ ops < MaxOps
    /\ result' = [NoResult EXCEPT !.op = "add", !.res = "Err", !.err = e,
                      !.raised = e, !.factory_calls = 1]
    /\ ops' = ops + 1
    /\ UNCHANGED <<overflow_checks, devices, coordinate_map, light_threshold, pc,
                   flush_next, flushed, last_written, routing_vars, polling_vars, harness_vars>>

\* CanvasLayout::set_light_threshold
SetLightThreshold(value) ==
    /\ pc = "idle"
    /\ ops < MaxOps
    /\ light_threshold' = value
    /\ result' = [NoResult EXCEPT !.op = "set_light_threshold"]
    /\ ops' = ops + 1
    /\ UNCHANGED <<overflow_checks, devices, coordinate_map, pc, flush_next,
                   flushed, last_written, routing_vars, polling_vars, harness_vars>>

RECURSIVE BoundingBoxSum(_)
BoundingBoxSum(k) ==
    IF k = 0 THEN <<0, 0>>
    ELSE <<BoundingBoxSum(k - 1)[1] + bounding_box_of(devices[k].canvas.kind)[1],
           BoundingBoxSum(k - 1)[2] + bounding_box_of(devices[k].canvas.kind)[2]>>

\* u32::max
MaxU32(a, b) == IF a >= b THEN a ELSE b

\* CanvasLayout::bounding_box, the loop after its first k devices:
\* (width, height)
RECURSIVE BoundingBoxLoop(_)
BoundingBoxLoop(k) ==
    IF k = 0 THEN <<0, 0>>
    ELSE <<MaxU32(BoundingBoxLoop(k - 1)[1], bounding_box_of(devices[k].canvas.kind)[1]),
           MaxU32(BoundingBoxLoop(k - 1)[2], bounding_box_of(devices[k].canvas.kind)[2])>>

\* CanvasLayout::bounding_box
bounding_box == BoundingBoxLoop(Len(devices))

\* Option<&Color>: low_level_get_pending
low_level_get_pending(x, y) ==
    IF <<x, y>> \in DOMAIN coordinate_map
    THEN [some |-> TRUE, color |-> coordinate_map[<<x, y>>].color_new]
    ELSE [some |-> FALSE, color |-> BLACK]

\* Option<&Color>: low_level_get
low_level_get(x, y) ==
    IF <<x, y>> \in DOMAIN coordinate_map
    THEN [some |-> TRUE, color |-> coordinate_map[<<x, y>>].color_old]
    ELSE [some |-> FALSE, color |-> BLACK]

\* The global coordinates the client addresses: the origin, the first pad of
\* a device placed beside it, the first pad one row down, a coordinate that
\* only a rotated device reaches (-1 stored unsigned), and one that no
\* placement of the model claims.
ClientCoords == {<<0, 0>>, <<2, 0>>, <<0, 1>>, <<UMax, 0>>, <<5, 5>>}

\* Option<&mut Color>: low_level_get_pending_mut
low_level_get_pending_mut(x, y) ==
    IF <<x, y>> \in DOMAIN coordinate_map
    THEN [some |-> TRUE, color |-> coordinate_map[<<x, y>>].color_new]
    ELSE [some |-> FALSE, color |-> BLACK]

WriteCreatesRecord(x, y, color) ==
    /\ pc = "idle"
    /\ ops < MaxOps
    /\ coordinate_map' = MapInsert(coordinate_map, <<x, y>>,
           IF <<x, y>> \in DOMAIN coordinate_map
           THEN [coordinate_map[<<x, y>>] EXCEPT !.color_new = color]
           ELSE Pixel(0, color, BLACK))
    /\ last_written' = MapInsert(last_written, <<x, y>>, color)
    /\ result' = [NoResult EXCEPT !.op = "write", !.res = "Some",
                      !.args = [NoArgs EXCEPT !.x = x, !.y = y]]
    /\ ops' = ops + 1
    /\ UNCHANGED <<overflow_checks, devices, light_threshold, pc, flush_next,
                   flushed, routing_vars, polling_vars, harness_vars>>

\* A client write: low_level_get_pending_mut(x, y), and the store through
\* the reference when it is Some.
Write(x, y, color) ==
    /\ pc = "idle"
    /\ ops < MaxOps
    /\ IF low_level_get_pending_mut(x, y).some
       THEN /\ coordinate_map' = [coordinate_map EXCEPT ![<<x, y>>].color_new = color]
            /\ last_written' = [last_written EXCEPT ![<<x, y>>] = color]
            /\ result' = [NoResult EXCEPT !.op = "write", !.res = "Some",
                              !.args = [NoArgs EXCEPT !.x = x, !.y = y]]
       ELSE /\ UNCHANGED <<coordinate_map, last_written>>
            /\ result' = [NoResult EXCEPT !.op = "write", !.res = "None",
                              !.args = [NoArgs EXCEPT !.x = x, !.y = y]]
    /\ ops' = ops + 1
    /\ UNCHANGED <<overflow_checks, devices, light_threshold, pc, flush_next,
                   flushed, routing_vars, polling_vars, harness_vars>>

\* flush, first loop: what one pixel record needs from its device.
SlotOf(key) == coordinate_map[key].device_index + 1

LocalOf(key) ==
    LET d == devices[SlotOf(key)]
    IN  to_local(key[1], key[2], d.rotation, d.x, d.y)

\* The record's device exists, to_local returns, and the device has a
\* pending cell there (low_level_get_pending_mut(..).unwrap() does not panic).
RewriteOk(key) ==
    /\ SlotOf(key) \in 1 .. Len(devices)
    /\ ~LocalOf(key).panic
    /\ <<LocalOf(key).x, LocalOf(key).y>> \in DOMAIN devices[SlotOf(key)].canvas.pending

\* The records of S whose color lands in cell `pad` of slot i.
Writers(S, i, pad) ==
    {key \in S : SlotOf(key) = i /\ <<LocalOf(key).x, LocalOf(key).y>> = pad}

RewrittenDevicesUnmapped(S) ==
    [i \in 1 .. Len(devices) |->
        [devices[i] EXCEPT !.canvas.pending =
            [pad \in DOMAIN devices[i].canvas.pending |->
                IF Writers(S, i, pad) = {} THEN devices[i].canvas.pending[pad]
                ELSE coordinate_map[CHOOSE key \in Writers(S, i, pad) : TRUE].color_new]]]

\* to_local is one-to-one on the records of a device, so a cell has at most
\* one writer and the order in which the map is iterated does not show.
RewrittenDevices(S) ==
    [i \in 1 .. Len(devices) |->
        [devices[i] EXCEPT !.canvas.pending =
            [pad \in DOMAIN devices[i].canvas.pending |->
                IF Writers(S, i, pad) = {} THEN devices[i].canvas.pending[pad]
                ELSE transform_color(
                         coordinate_map[CHOOSE key \in Writers(S, i, pad) : TRUE].color_new,
                         light_threshold,
                         lowest_visible_brightness_of(devices[i].canvas.kind))]]]

CommittedMapRemapped(S) ==
    [key \in DOMAIN coordinate_map |->
        IF key \in S
        THEN [coordinate_map[key] EXCEPT !.color_old =
                 transform_color(coordinate_map[key].color_new, light_threshold,
                     lowest_visible_brightness_of(devices[SlotOf(key)].canvas.kind))]
        ELSE coordinate_map[key]]

CommittedMapUnchanged(S) == coordinate_map

\* pixel.color_old = pixel.color_new, for the records of S
CommittedMap(S) ==
    [key \in DOMAIN coordinate_map |->
        IF key \in S
        THEN [coordinate_map[key] EXCEPT !.color_old = coordinate_map[key].color_new]
        ELSE coordinate_map[key]]

\* CanvasLayout::flush, the loop over coordinate_map.iter_mut(): every record
\* is rewritten into its device and committed; a record whose device or cell
\* is missing panics the call after any part of the others was done.
FlushRewrite ==
    /\ pc = "idle"
    /\ ops < MaxOps
    /\ ops' = ops + 1
    /\ LET keys == DOMAIN coordinate_map
           good == {key \in keys : RewriteOk(key)}
       IN  IF good = keys
           THEN /\ devices' = RewrittenDevices(keys)
                /\ coordinate_map' = CommittedMap(keys)
                /\ pc' = "flushing"
                /\ flush_next' = 0
                /\ flushed' = <<>>
                /\ result' = [NoResult EXCEPT !.op = "flush", !.res = "running"]
           ELSE \E done \in SUBSET good :
                /\ devices' = RewrittenDevices(done)
                /\ coordinate_map' = CommittedMap(done)
                /\ pc' = "panicked"
                /\ result' = [NoResult EXCEPT !.op = "flush", !.res = "panic"]
                /\ UNCHANGED <<flush_next, flushed>>
    /\ UNCHANGED <<overflow_checks, light_threshold, last_written, routing_vars, polling_vars, harness_vars>>

FlushDeviceSkipsOnError ==
    /\ pc = "flushing"
    /\ flush_next < Len(devices)
    /\ \/ /\ devices' = [devices EXCEPT ![flush_next + 1].canvas = DeviceFlushed(@)]
          /\ flushed' = Append(flushed, flush_next)
          /\ flush_next' = flush_next + 1
          /\ UNCHANGED <<pc, result>>
       \/ /\ flush_next' = flush_next + 1
          /\ UNCHANGED <<devices, flushed, pc, result>>
    /\ UNCHANGED <<overflow_checks, coordinate_map, light_threshold, ops,
                   last_written, routing_vars, polling_vars, harness_vars>>

\* CanvasLayout::flush, one turn of the loop over the devices:
\* device.canvas.flush()? either succeeds or returns its error from flush.
FlushDevice ==
    /\ pc = "flushing"
    /\ flush_next < Len(devices)
    /\ \/ /\ devices' = [devices EXCEPT ![flush_next + 1].canvas = DeviceFlushed(@)]
          /\ flushed' = Append(flushed, flush_next)
          /\ flush_next' = flush_next + 1
          /\ UNCHANGED <<pc, result>>
       \/ /\ result' = [NoResult EXCEPT !.op = "flush", !.res = "Err",
                            !.err = "MidiError", !.failed = flush_next]
          /\ pc' = "idle"
          /\ UNCHANGED <<devices, flushed, flush_next>>
    /\ UNCHANGED <<overflow_checks, coordinate_map, light_threshold, ops,
                   last_written, routing_vars, polling_vars, harness_vars>>

\* CanvasLayout::flush, after the last device: Ok(())
FlushReturn ==
    /\ pc = "flushing"
    /\ flush_next = Len(devices)
    /\ result' = [NoResult EXCEPT !.op = "flush", !.res = "Ok"]
    /\ pc' = "idle"
    /\ UNCHANGED <<overflow_checks, devices, coordinate_map, light_threshold,
                   flush_next, flushed, ops, last_written, routing_vars, polling_vars, harness_vars>>

---------------------------------------------------------------------------
\* Message routing: the callback add hands to the factory

MessageKinds == {"Press", "Release"}

\* CanvasMessage
Message(kind, x, y) == [kind |-> kind, x |-> x, y |-> y]

RoutedAlwaysPress(i, kind, pad) ==
    LET d == devices[i]
        g == to_global(pad[1], pad[2], d.rotation, d.x, d.y)
    IN  [panic |-> g.panic, msg |-> Message("Press", g.x, g.y)]

RoutedIgnoresRotation(i, kind, pad) ==
    LET d == devices[i]
        g == to_global(pad[1], pad[2], "None", d.x, d.y)
    IN  [panic |-> g.panic,
         msg |-> CASE kind = "Press" -> Message("Press", g.x, g.y)
                   [] kind = "Release" -> Message("Release", g.x, g.y)]

\* The closure built in add for the device of slot i: the message it calls
\* the layout's callback with when the device emits `kind` at local `pad`
\* (rotation and offsets are the ones add was called with).
Routed(i, kind, pad) ==
    LET d == devices[i]
        g == to_global(pad[1], pad[2], d.rotation, d.x, d.y)
    IN  [panic |-> g.panic,
         msg |-> CASE kind = "Press" -> Message("Press", g.x, g.y)
                   [] kind = "Release" -> Message("Release", g.x, g.y)]

NoEvent == [dev |-> 0, kind |-> "Press", x |-> 0, y |-> 0]

RoutingInit ==
    /\ sink = [calls |-> 0, last |-> Message("Press", 0, 0)]
    /\ emitted = [count |-> 0, last |-> NoEvent]

\* The device of slot i emits `kind` at its local `pad`, on its own delivery
\* context; the layout was made by CanvasLayout::new, whose callback is the
\* client's (here it records what it is called with).
Emit(i, kind, pad) ==
    /\ ~polling
    /\ pc # "panicked"
    /\ i \in 1 .. Len(devices)
    /\ ops + emitted.count < MaxOps
    /\ emitted' = [count |-> emitted.count + 1,
                   last |-> [dev |-> i - 1, kind |-> kind, x |-> pad[1], y |-> pad[2]]]
    /\ sink' = IF Routed(i, kind, pad).panic THEN sink
               ELSE [calls |-> sink.calls + 1, last |-> Routed(i, kind, pad).msg]
    /\ UNCHANGED <<overflow_checks, layout_vars, polling_vars, harness_vars>>

\* The offsets of the two-device scenario (a device on the origin, one at
\* (9, 0)) and one more, off both axes.
RoutingOffsets == {<<0, 0>>, <<9, 0>>, <<2, 1>>}

RNext ==
    \/ \E rotation \in Rotation, offset \in RoutingOffsets :
           Add("s", rotation, offset[1], offset[2])
    \/ \E i \in 1 .. Len(devices), kind \in MessageKinds :
           \E pad \in Pads(devices[i].canvas.kind) : Emit(i, kind, pad)

---------------------------------------------------------------------------
\* The polling adapter: CanvasLayout::new_polling and CanvasLayoutPoller

\* The bound of the channel: sync_channel(50) in the code.
QueueCapacity == 2
\* The number of events one device delivers.
MaxSends == 2

DeviceIds == 0 .. MaxDevices - 1

NoEntry == [msg |-> Message("Press", 0, 0), src |-> 0, n |-> 0]
NotWaiting == [waiting |-> FALSE, entry |-> NoEntry, since |-> 0]

RECURSIVE SumUpTo(_, _)
SumUpTo(f, i) == IF i < 0 THEN 0 ELSE f[i] + SumUpTo(f, i - 1)

TotalReceived == SumUpTo(received, MaxDevices - 1)

PollingInit ==
    /\ queue = <<>>
    /\ blocked = [i \in DeviceIds |-> NotWaiting]
    /\ sent = [i \in DeviceIds |-> 0]
    /\ received = [i \in DeviceIds |-> 0]
    /\ polled = [some |-> FALSE, entry |-> NoEntry]

\* The n-th event of a device: its first pad is pressed, then released.
EventKind(n) == IF n % 2 = 1 THEN "Press" ELSE "Release"

DeliverDropOldest(i) ==
    /\ polling
    /\ pc # "panicked"
    /\ i \in 1 .. Len(devices)
    /\ ~blocked[i - 1].waiting
    /\ sent[i - 1] < MaxSends
    /\ LET r == Routed(i, EventKind(sent[i - 1] + 1), PadSeq(devices[i].canvas.kind)[1])
           e == [msg |-> r.msg, src |-> i - 1, n |-> sent[i - 1] + 1]
       IN  /\ sent' = [sent EXCEPT ![i - 1] = @ + 1]
           /\ queue' = IF r.panic THEN queue
                       ELSE IF Len(queue) < QueueCapacity THEN Append(queue, e)
                       ELSE Append(Tail(queue), e)
           /\ UNCHANGED blocked
    /\ UNCHANGED <<overflow_checks, layout_vars, routing_vars, polling, received,
                   polled, harness_vars>>

DeliverDropsWhenFull(i) ==
    /\ polling
    /\ pc # "panicked"
    /\ i \in 1 .. Len(devices)
    /\ ~blocked[i - 1].waiting
    /\ sent[i - 1] < MaxSends
    /\ LET r == Routed(i, EventKind(sent[i - 1] + 1), PadSeq(devices[i].canvas.kind)[1])
           e == [msg |-> r.msg, src |-> i - 1, n |-> sent[i - 1] + 1]
       IN  /\ sent' = [sent EXCEPT ![i - 1] = @ + 1]
           /\ queue' = IF ~r.panic /\ Len(queue) < QueueCapacity
                       THEN Append(queue, e) ELSE queue
           /\ UNCHANGED blocked
    /\ UNCHANGED <<overflow_checks, layout_vars, routing_vars, polling, received,
                   polled, harness_vars>>

\* The device of slot i emits its next event; the layout was made by
\* new_polling, whose callback is sender.send(msg): the message goes into the
\* channel when it has room, else the delivery context waits inside send.
Deliver(i) ==
    /\ polling
    /\ pc # "panicked"
    /\ i \in 1 .. Len(devices)
    /\ ~blocked[i - 1].waiting
    /\ sent[i - 1] < MaxSends
    /\ LET r == Routed(i, EventKind(sent[i - 1] + 1), PadSeq(devices[i].canvas.kind)[1])
           e == [msg |-> r.msg, src |-> i - 1, n |-> sent[i - 1] + 1]
       IN  /\ sent' = [sent EXCEPT ![i - 1] = @ + 1]
           /\ queue' = IF ~r.panic /\ Len(queue) < QueueCapacity
                       THEN Append(queue, e) ELSE queue
           /\ blocked' = IF ~r.panic /\ Len(queue) >= QueueCapacity
                         THEN [blocked EXCEPT ![i - 1] =
                                  [waiting |-> TRUE, entry |-> e, since |-> TotalReceived]]
                         ELSE blocked
    /\ UNCHANGED <<overflow_checks, layout_vars, routing_vars, polling, received,
                   polled, harness_vars>>

UnblockJumpsQueue(i) ==
    /\ blocked[i].waiting
    /\ Len(queue) < QueueCapacity
    /\ queue' = <<blocked[i].entry>> \o queue
    /\ blocked' = [blocked EXCEPT ![i] = NotWaiting]
    /\ UNCHANGED <<overflow_checks, layout_vars, routing_vars, polling, sent,
                   received, polled, harness_vars>>

\* A send that waited completes once the channel has room.
Unblock(i) ==
    /\ blocked[i].waiting
    /\ Len(queue) < QueueCapacity
    /\ queue' = Append(queue, blocked[i].entry)
    /\ blocked' = [blocked EXCEPT ![i] = NotWaiting]
    /\ UNCHANGED <<overflow_checks, layout_vars, routing_vars, polling, sent,
                   received, polled, harness_vars>>

\* The consumer polls: try_recv on the receiver returns the oldest message,
\* or Empty at once.
Poll ==
    /\ polling
    /\ IF queue = <<>>
       THEN /\ polled' = [some |-> FALSE, entry |-> NoEntry]
            /\ UNCHANGED <<queue, received>>
       ELSE /\ polled' = [some |-> TRUE, entry |-> Head(queue)]
            /\ queue' = Tail(queue)
            /\ received' = [received EXCEPT ![Head(queue).src] = @ + 1]
    /\ UNCHANGED <<overflow_checks, layout_vars, routing_vars, polling, blocked,
                   sent, harness_vars>>

\* The devices of a polled layout stand in a row, 9 apart, none overlapping
\* another: the offset of the k-th device added (k from 0).
PollingOffset(k) == <<9 * k, 0>>

PNext ==
    \/ Add("mk2", "None", PollingOffset(Len(devices))[1], PollingOffset(Len(devices))[2])
    \/ \E i \in 1 .. Len(devices) : Deliver(i)
    \/ \E i \in DeviceIds : Unblock(i)
    \/ Poll

---------------------------------------------------------------------------
\* Specifications

HarnessOff ==
    /\ t_pc = "off"
    /\ t_in = [rot |-> "None", x |-> 0, y |-> 0, ox |-> 0, oy |-> 0]
    /\ t_out = [panic |-> FALSE, x |-> 0, y |-> 0]
    /\ t_back = [panic |-> FALSE, x |-> 0, y |-> 0]

\* No placement of Offsets overflows a signed operation, so both builds
\* behave alike here; the one with overflow checks is the one modelled.
Init ==
    /\ overflow_checks = TRUE
    /\ LayoutInit
    /\ RoutingInit
    /\ polling = FALSE
    /\ PollingInit
    /\ HarnessOff

\* CanvasLayout::new_polling
PInit ==
    /\ overflow_checks = TRUE
    /\ LayoutInit
    /\ RoutingInit
    /\ polling = TRUE
    /\ PollingInit
    /\ HarnessOff

Next ==
    \/ \E kind \in Kinds, rotation \in Rotation, offset \in Offsets :
           Add(kind, rotation, offset[1], offset[2])
    \/ \E e \in FactoryErrors : AddFactoryErr(e)
    \/ \E value \in Thresholds : SetLightThreshold(value)
    \/ \E key \in ClientCoords, color \in Palette : Write(key[1], key[2], color)
    \/ FlushRewrite
    \/ FlushDevice
    \/ FlushReturn

Spec == Init /\ [][Next]_vars

\* Registration and event delivery to the client's callback.
SpecRouting == Init /\ [][RNext]_vars

\* Registration and event delivery through the polling adapter.
SpecPolling == PInit /\ [][PNext]_vars

\* The consumer keeps polling, and a send waiting in the channel is woken
\* and completes if the channel has room again and again.
PollingFairness ==
    /\ WF_vars(Poll)
    /\ \A i \in DeviceIds : SF_vars(Unblock(i))

\* The polling adapter with a consumer that keeps polling.
SpecPollingFair == PInit /\ [][PNext]_vars /\ PollingFairness

---------------------------------------------------------------------------
\* Harness applying the pure transforms to inputs drawn at Init

\* The unsigned values the harness draws from: both ends of the unsigned
\* range and both sides of the sign boundary.
EdgeU == {0, 1, 2, IMax - 1, IMax, IMax + 1, UMax - 1, UMax}

NoPoint == Point(0, 0)

TInit ==
    /\ overflow_checks \in BOOLEAN
    /\ t_pc = "start"
    /\ t_in \in [rot : Rotation, x : EdgeU, y : EdgeU, ox : EdgeU, oy : EdgeU]
    /\ t_out = NoPoint
    /\ t_back = NoPoint
    /\ LayoutInit
    /\ RoutingInit
    /\ polling = FALSE
    /\ PollingInit

\* let g = to_global(x, y, r, ox, oy)
TToGlobal ==
    /\ t_pc = "start"
    /\ t_out' = to_global(t_in.x, t_in.y, t_in.rot, t_in.ox, t_in.oy)
    /\ t_pc' = IF t_out'.panic THEN "global_panicked" ELSE "global"
    /\ UNCHANGED <<overflow_checks, layout_vars, routing_vars, polling_vars, t_in, t_back>>

\* to_local(g.0, g.1, r, ox, oy)
TToLocal ==
    /\ t_pc = "global"
    /\ t_back' = to_local(t_out.x, t_out.y, t_in.rot, t_in.ox, t_in.oy)
    /\ t_pc' = IF t_back'.panic THEN "local_panicked" ELSE "local"
    /\ UNCHANGED <<overflow_checks, layout_vars, routing_vars, polling_vars, t_in, t_out>>

\* let p = r.translate(x as i32, y as i32)
TTranslate ==
    /\ t_pc = "start"
    /\ t_out' = translate(t_in.rot, AsI32(t_in.x), AsI32(t_in.y))
    /\ t_pc' = IF t_out'.panic THEN "rotate_panicked" ELSE "rotated"
    /\ UNCHANGED <<overflow_checks, layout_vars, routing_vars, polling_vars, t_in, t_back>>

\* (-r).translate(p.0, p.1)
TTranslateBack ==
    /\ t_pc = "rotated"
    /\ t_back' = translate(Neg(t_in.rot), t_out.x, t_out.y)
    /\ t_pc' = IF t_back'.panic THEN "unrotate_panicked" ELSE "unrotated"
    /\ UNCHANGED <<overflow_checks, layout_vars, routing_vars, polling_vars, t_in, t_out>>

\* The floats strictly between 0 and 1 the remap is tried with as source and
\* target floor: every mantissa, in the three binades below 1.
FloatsBelowOne ==
    {Rat(mant, Pow2(e)) : mant \in Pow2(MantissaBits - 1) .. Pow2(MantissaBits) - 1,
                          e \in MantissaBits .. MantissaBits + 2}

\* The channel values the remap is tried with: 0, 1 and the floats of one
\* binade between.
ChannelInputs ==
    {Zero, One} \cup
    {Rat(mant, Pow2(MantissaBits + 1)) :
        mant \in Pow2(MantissaBits - 1) .. Pow2(MantissaBits) - 1}

RemapInit ==
    /\ overflow_checks = TRUE
    /\ t_pc = "remap"
    /\ t_in \in [c : ChannelInputs, s : FloatsBelowOne, t : FloatsBelowOne]
    /\ t_out = Zero
    /\ t_back = Zero
    /\ LayoutInit
    /\ RoutingInit
    /\ polling = FALSE
    /\ PollingInit

\* transform_color on a channel holding the source floor s
RemapFloor ==
    /\ t_pc = "remap"
    /\ t_out' = transform_channel(t_in.s, t_in.s, t_in.t)
    /\ t_pc' = "floor"
    /\ UNCHANGED <<overflow_checks, layout_vars, routing_vars, polling_vars, t_in, t_back>>

\* transform_color on a channel holding 1.0
RemapOff ==
    /\ t_pc = "remap"
    /\ t_out' = transform_channel(One, t_in.s, t_in.t)
    /\ t_pc' = "off"
    /\ UNCHANGED <<overflow_checks, layout_vars, routing_vars, polling_vars, t_in, t_back>>

\* transform_color with the target floor equal to the source floor
RemapSame ==
    /\ t_pc = "remap"
    /\ t_out' = transform_channel(t_in.c, t_in.s, t_in.s)
    /\ t_pc' = "same"
    /\ UNCHANGED <<overflow_checks, layout_vars, routing_vars, polling_vars, t_in, t_back>>

RemapNext == RemapFloor \/ RemapOff \/ RemapSame

SpecRemap == RemapInit /\ [][RemapNext]_vars

TNext == TToGlobal \/ TToLocal \/ TTranslate \/ TTranslateBack

SpecTransform == TInit /\ [][TNext]_vars

---------------------------------------------------------------------------
\* Properties

\* The forward transform as the integers have it: the rotation, then the
\* offset, the result taken modulo the word size.
Rotated(rot, x, y) ==
    CASE rot = "None" -> <<x, y>>
      [] rot = "UpsideDown" -> <<0 - x, 0 - y>>
      [] rot = "Left" -> <<0 - y, x>>
      [] rot = "Right" -> <<y, 0 - x>>

Forward(rot, x, y, ox, oy) ==
    <<(Rotated(rot, x, y)[1] + ox) % UMod, (Rotated(rot, x, y)[2] + oy) % UMod>>

\* The global coordinates slot i claims.
ClaimsOf(i) ==
    {Forward(devices[i].rotation, pad[1], pad[2], devices[i].x, devices[i].y) :
        pad \in Pads(devices[i].canvas.kind)}

Slots == 1 .. Len(devices)

\* C1. While no call has panicked, the keys of the coordinate map are exactly
\* the forward transforms of the addressable pads of the slots; each key is
\* claimed by exactly one slot, its record names that slot, the index is
\* smaller than the number of slots, and no two slots claim one coordinate.
C1_Partition ==
    pc # "panicked" =>
        \A claims \in {[i \in Slots |-> ClaimsOf(i)]} :
            /\ \A key \in DOMAIN coordinate_map :
                  /\ Cardinality({i \in Slots : key \in claims[i]}) = 1
                  /\ coordinate_map[key].device_index < Len(devices)
                  /\ key \in claims[coordinate_map[key].device_index + 1]
            /\ \A i \in Slots : claims[i] \subseteq DOMAIN coordinate_map
            /\ \A i, j \in Slots : i # j => claims[i] \cap claims[j] = {}

\* Two slots, one of them rotated onto a coordinate left of the origin (a
\* negative coordinate stored unsigned), after a flush.
C1_Witness ==
    /\ pc = "idle"
    /\ Len(devices) = 2
    /\ result.op = "flush"
    /\ \E key \in DOMAIN coordinate_map : key[1] > IMax

\* The pads of an add call, by number, as global coordinates.
GlobalOfPad(a, k) ==
    Forward(a.rotation, PadSeq(a.kind)[k][1], PadSeq(a.kind)[k][2], a.x, a.y)

Colliding(a) ==
    {k \in 1 .. Len(PadSeq(a.kind)) : GlobalOfPad(a, k) \in DOMAIN coordinate_map}

FirstColliding(a) == CHOOSE k \in Colliding(a) : \A m \in Colliding(a) : k <= m

\* A step that is a call of add whose factory returned a device.
AddCalled == ops' = ops + 1 /\ result'.op = "add" /\ result'.res # "Err"

\* C2. An add call one of whose transformed pads is already a key panics, and
\* the diagnostic names the first colliding coordinate in enumeration order,
\* the index of the slot that owned it and the index the new device would have
\* got (the number of slots); an add call none of whose transformed pads is a
\* key does not fail with an overlap (it returns Ok).
C2_OverlapDetection ==
    [][AddCalled =>
          IF Colliding(result'.args) # {}
          THEN /\ result'.res = "overlap"
               /\ pc' = "panicked"
               /\ devices' = devices
               /\ LET g == GlobalOfPad(result'.args, FirstColliding(result'.args))
                  IN  result'.diag = [x |-> g[1], y |-> g[2],
                                      old |-> coordinate_map[g].device_index,
                                      new |-> Len(devices)]
          ELSE result'.res = "Ok" /\ pc' = "idle"]_vars

\* An overlap found at a pad that is not the first one enumerated, against
\* the first slot, while adding the second.
C2_Witness ==
    /\ pc = "panicked"
    /\ result.op = "add"
    /\ result.res = "overlap"
    /\ result.diag.old = 0
    /\ result.diag.new = 1
    /\ <<result.diag.x, result.diag.y>> # <<result.args.x, result.args.y>>

\* The rotated coordinate and its sum with the offset, all taken as signed
\* words, fit the signed word.
GlobalInRange ==
    LET r == Rotated(t_in.rot, AsI32(t_in.x), AsI32(t_in.y))
    IN  /\ r[1] \in I32 /\ r[2] \in I32
        /\ r[1] + AsI32(t_in.ox) \in I32
        /\ r[2] + AsI32(t_in.oy) \in I32

\* The original statement of C3: for every rotation, every unsigned offset
\* and every local coordinate within the signed range, to_global then
\* to_local returns (x, y).
C3_AsClaimed ==
    (t_in.x <= IMax /\ t_in.y <= IMax) =>
        /\ t_pc \notin {"global_panicked", "local_panicked"}
        /\ t_pc = "local" => t_back = Point(t_in.x, t_in.y)

\* C3. Global-then-local round trip: for every rotation, offset and local
\* coordinate whose rotated coordinate and its sum with the offset (as signed
\* words) fit the signed word, and in a build without overflow checks for
\* all of them, to_global returns the forward transform modulo the word and
\* to_local of it (same rotation and offset) returns the original (x, y),
\* also when the signed global coordinate is negative and passes through its
\* unsigned form; on the other inputs a build with overflow checks panics in
\* to_global.
C3_RoundTrip ==
    /\ t_pc = "local" => t_back = Point(t_in.x, t_in.y)
    /\ t_pc # "local_panicked"
    /\ t_pc = "global_panicked" => overflow_checks /\ ~GlobalInRange
    /\ t_pc = "global" =>
          /\ overflow_checks => GlobalInRange
          /\ <<t_out.x, t_out.y>> = Forward(t_in.rot, AsI32(t_in.x), AsI32(t_in.y),
                                            t_in.ox, t_in.oy)

\* A round trip through a negative global coordinate: local (0, 1), rotated
\* left to (-1, 0), offset 0, stored as the largest unsigned value.
C3_Witness ==
    /\ t_pc = "local"
    /\ t_in.rot = "Left"
    /\ t_in.x = 0 /\ t_in.y = 1 /\ t_in.ox = 0 /\ t_in.oy = 0
    /\ t_out.x = UMax
    /\ t_back = Point(0, 1)

\* The original statement of C4: for every rotation and every signed pair,
\* the inverse rotation applied to the rotated pair returns the pair.
C4_AsClaimed ==
    /\ t_pc \notin {"rotate_panicked", "unrotate_panicked"}
    /\ t_pc = "unrotated" => t_back = Point(AsI32(t_in.x), AsI32(t_in.y))

\* C4. Rotation inverse: for every rotation r and every signed pair (x, y)
\* neither component of which is the minimum of the type, (-r).translate of
\* r.translate(x, y) returns (x, y); on a pair with a minimum component that r
\* negates, translate panics in a build with overflow checks and the round
\* trip still returns the pair in a build without. None and UpsideDown are
\* their own inverse, Left and Right each other's, so negating a rotation
\* twice gives it back.
C4_RotationInverse ==
    /\ t_pc = "unrotated" => t_back = Point(AsI32(t_in.x), AsI32(t_in.y))
    /\ t_pc # "unrotate_panicked"
    /\ t_pc = "rotate_panicked" =>
          overflow_checks /\ (AsI32(t_in.x) = IMin \/ AsI32(t_in.y) = IMin)
    /\ t_pc = "rotated" => <<t_out.x, t_out.y>> =
          LET r == Rotated(t_in.rot, AsI32(t_in.x), AsI32(t_in.y))
          IN  <<AsI32(r[1] % UMod), AsI32(r[2] % UMod)>>
    /\ Neg(Neg(t_in.rot)) = t_in.rot
    /\ (Neg(t_in.rot) = t_in.rot) <=> (t_in.rot \in {"None", "UpsideDown"})
    /\ t_in.rot = "Left" => Neg(t_in.rot) = "Right"

\* (1, 2) rotated left to (-2, 1) and back by the inverse, Right.
C4_Witness ==
    /\ t_pc = "unrotated"
    /\ t_in.rot = "Left"
    /\ t_in.x = 1 /\ t_in.y = 2
    /\ t_out = Point(0 - 2, 1)
    /\ t_back = Point(1, 2)


\* The color slot i's device holds, pending and shown, for the record at key.
RemappedFor(key) ==
    transform_color(coordinate_map[key].color_new, light_threshold,
                    lowest_visible_brightness_of(devices[SlotOf(key)].canvas.kind))

PadOf(key) == <<LocalOf(key).x, LocalOf(key).y>>

\* C5. Every event a registered device emits at a local pad reaches the
\* client's callback exactly once, with the same kind and with the forward
\* transform of the pad under the rotation and offset the device was
\* registered with.
C5_EventRouting ==
    /\ sink.calls = emitted.count
    /\ emitted.count > 0 =>
          LET e == emitted.last
              d == devices[e.dev + 1]
              g == Forward(d.rotation, e.x, e.y, d.x, d.y)
          IN  sink.last = Message(e.kind, g[1], g[2])

\* Device A on the origin, device B at offset (9, 0), both unrotated: a press
\* at B's local (0, 0) reached the callback as Press at (9, 0).
C5_Witness ==
    /\ Len(devices) = 2
    /\ devices[1].rotation = "None" /\ devices[1].x = 0 /\ devices[1].y = 0
    /\ devices[2].rotation = "None" /\ devices[2].x = 9 /\ devices[2].y = 0
    /\ emitted.last = [dev |-> 1, kind |-> "Press", x |-> 0, y |-> 0]
    /\ emitted.count > 0
    /\ sink.last = Message("Press", 9, 0)

\* C6. The layout's pending color at a coordinate is always the color last
\* written there (flush does not touch it), and once flush has rewritten the
\* records the committed color read at every coordinate of the map is that
\* same color: neither is the brightness-remapped value.
C6_CommittedIsWritten ==
    pc # "panicked" =>
        /\ DOMAIN last_written = DOMAIN coordinate_map
        /\ \A key \in DOMAIN coordinate_map :
              /\ low_level_get_pending(key[1], key[2]) =
                     [some |-> TRUE, color |-> last_written[key]]
              /\ result.op = "flush" =>
                     low_level_get(key[1], key[2]) =
                         [some |-> TRUE, color |-> last_written[key]]

\* A flush that returned Ok after the client wrote a color that the remap
\* changes: the layout reads back the written color, the device shows the
\* remapped one.
C6_Witness ==
    /\ pc = "idle"
    /\ result.op = "flush"
    /\ result.res = "Ok"
    /\ \E key \in DOMAIN coordinate_map :
          /\ last_written[key] = <<One, Zero, Quarter>>
          /\ coordinate_map[key].color_old = <<One, Zero, Quarter>>
          /\ devices[SlotOf(key)].canvas.shown[PadOf(key)] = RemappedFor(key)
          /\ RemappedFor(key) # <<One, Zero, Quarter>>

\* C7. Within a flush call every record is rewritten into its device's
\* pending buffer before the first device is flushed; the devices are flushed
\* at most once each, in ascending slot order; when the flush of device i
\* fails, flush returns that error, exactly the devices 0 .. i-1 have been
\* flushed and none after i is; when none fails every device is flushed once
\* and flush returns Ok.
C7_FlushOrdering ==
    (result.op = "flush" /\ pc # "panicked") =>
        /\ flushed = [j \in 1 .. Len(flushed) |-> j - 1]
        /\ Len(flushed) = flush_next
        /\ Len(flushed) <= Len(devices)
        /\ \A key \in DOMAIN coordinate_map :
              \A remapped \in {RemappedFor(key)} :
                  /\ devices[SlotOf(key)].canvas.pending[PadOf(key)] = remapped
                  /\ SlotOf(key) <= Len(flushed) =>
                         devices[SlotOf(key)].canvas.shown[PadOf(key)] = remapped
        /\ pc = "idle" =>
              \/ /\ result.res = "Err"
                 /\ result.err = "MidiError"
                 /\ result.failed = Len(flushed)
                 /\ result.failed < Len(devices)
              \/ /\ result.res = "Ok"
                 /\ Len(flushed) = Len(devices)

\* A flush of two devices in which the second one's flush failed: the first
\* was flushed, the second was not.
C7_Witness ==
    /\ pc = "idle"
    /\ result.op = "flush"
    /\ result.res = "Err"
    /\ result.failed = 1
    /\ flushed = <<0>>
    /\ Len(devices) = 2

\* C8. When flush returns a device error, the committed color of every
\* record equals its pending color, the records of the failing device and of
\* the devices not flushed included.
C8_CommitDespiteFailure ==
    (result.op = "flush" /\ result.res = "Err") =>
        \A key \in DOMAIN coordinate_map :
            coordinate_map[key].color_old = coordinate_map[key].color_new

\* The first of two devices failed to flush: a record of the second device
\* is committed with a color its device, never flushed, does not show.
C8_Witness ==
    /\ result.op = "flush"
    /\ result.res = "Err"
    /\ result.failed = 0
    /\ Len(devices) = 2
    /\ \E key \in DOMAIN coordinate_map :
          /\ SlotOf(key) = 2
          /\ coordinate_map[key].color_old = Painted
          /\ devices[2].canvas.shown[PadOf(key)] = BLACK

\* A step that is a call of add whose factory returned an error.
AddFailed == ops' = ops + 1 /\ result'.op = "add" /\ result'.res = "Err"

\* C9. An add call whose factory returns an error has invoked the factory
\* once, returns that error, and leaves the slots and the coordinate map as
\* they were.
C9_FactoryFailure ==
    [][AddFailed =>
          /\ result'.factory_calls = 1
          /\ result'.err = result'.raised
          /\ result'.err \in FactoryErrors
          /\ devices' = devices
          /\ coordinate_map' = coordinate_map
          /\ last_written' = last_written
          /\ pc' = pc]_vars

\* A failed add on a layout that already has a device and its records.
C9_Witness ==
    /\ result.op = "add"
    /\ result.res = "Err"
    /\ result.err = "E2"
    /\ Len(devices) = 1
    /\ DOMAIN coordinate_map # {}

\* The messages of device i in the channel, oldest first.
FromDevice(i) == SelectSeq(queue, LAMBDA e : e.src = i)

\* C10. The channel of a polled layout never holds more than its capacity; a
\* delivery made while it is full waits, leaving the channel as it is, and
\* completes only after the consumer has received a message, by appending the
\* very message it held; every message sent and not yet received is in the
\* channel or held by its waiting sender exactly once, in the order sent.
C10_BoundedQueue ==
    /\ [](/\ Len(queue) <= QueueCapacity
          /\ \A i \in DeviceIds :
                /\ \A k \in 1 .. Len(FromDevice(i)) :
                      FromDevice(i)[k].n = received[i] + k
                /\ sent[i] = received[i] + Len(FromDevice(i))
                               + (IF blocked[i].waiting THEN 1 ELSE 0)
                /\ blocked[i].waiting =>
                      /\ blocked[i].entry.n = sent[i]
                      /\ blocked[i].entry.src = i
                      /\ blocked[i].since = TotalReceived =>
                             Len(queue) = QueueCapacity)
    /\ [][\A i \in DeviceIds :
            /\ (sent'[i] # sent[i] /\ Len(queue) = QueueCapacity) =>
                   blocked'[i].waiting /\ queue' = queue
            /\ (blocked[i].waiting /\ ~blocked'[i].waiting) =>
                   /\ TotalReceived > blocked[i].since
                   /\ queue' = Append(queue, blocked[i].entry)]_vars

\* A delivery waiting on a full channel after the consumer has already
\* received a message.
C10_Witness ==
    /\ Len(queue) = QueueCapacity
    /\ TotalReceived > 0
    /\ \E i \in DeviceIds : blocked[i].waiting /\ blocked[i].since = TotalReceived

\* A step in which the consumer's poll shows: it returned something new or
\* took a message.
PollReturned == polled' # polled \/ received' # received

\* C11. Messages enter the channel at its tail and a poll takes the one at
\* its head, so they are received in the order enqueued; the k-th message
\* received from a device is the k-th event that device emitted; a poll on
\* an empty channel returns no message at once and changes nothing else.
C11_PollingOrder ==
    /\ [][Len(queue') > Len(queue) =>
             Len(queue') = Len(queue) + 1 /\ SubSeq(queue', 1, Len(queue)) = queue]_vars
    /\ [][PollReturned =>
             IF queue = <<>>
             THEN /\ polled' = [some |-> FALSE, entry |-> NoEntry]
                  /\ UNCHANGED <<queue, received, blocked, sent>>
             ELSE /\ polled' = [some |-> TRUE, entry |-> Head(queue)]
                  /\ queue' = Tail(queue)
                  /\ polled'.entry.n = received[polled'.entry.src] + 1
                  /\ received' = [received EXCEPT ![polled'.entry.src] = @ + 1]
                  /\ polled'.entry.msg.kind = EventKind(polled'.entry.n)
                  /\ UNCHANGED <<blocked, sent>>]_vars
    /\ [](polling => ENABLED Poll)

\* The consumer has received messages of two devices and then polled the
\* empty channel: it was told there is no message.
C11_Witness ==
    /\ queue = <<>>
    /\ polled.some = FALSE
    /\ \E i, j \in DeviceIds : i # j /\ received[i] >= 2 /\ received[j] >= 1

\* A step that is a client's request for the writable pending color.
WriteCalled == ops' = ops + 1 /\ result'.op = "write"

\* C12. At a global coordinate that is not a key of the coordinate map, the
\* committed color, the pending color and the writable pending color are all
\* absent (None); the request for the writable one returns None without a
\* panic and leaves the coordinate map and the slots as they were.
C12_UnclaimedCoordinate ==
    /\ [](\A c \in ClientCoords :
             c \notin DOMAIN coordinate_map =>
                /\ ~low_level_get(c[1], c[2]).some
                /\ ~low_level_get_pending(c[1], c[2]).some
                /\ ~low_level_get_pending_mut(c[1], c[2]).some)
    /\ [][(WriteCalled /\ <<result'.args.x, result'.args.y>> \notin DOMAIN coordinate_map) =>
             /\ result'.res = "None"
             /\ coordinate_map' = coordinate_map
             /\ devices' = devices
             /\ pc' = "idle"]_vars

\* A write at (5, 5), which no device claims, on a layout that has a device:
\* None, and the map still has no record there.
C12_Witness ==
    /\ result.op = "write"
    /\ result.res = "None"
    /\ <<result.args.x, result.args.y>> = <<5, 5>>
    /\ Len(devices) >= 1
    /\ <<5, 5>> \notin DOMAIN coordinate_map

\* The largest member of a set of naturals, 0 for the empty set.
MaxOf(S) == IF S = {} THEN 0 ELSE CHOOSE v \in S : \A w \in S : w <= v

\* C13. While no call has panicked, the layout's bounding box is the largest
\* width and the largest height among its devices' own bounding boxes,
\* whatever their offsets and rotations, and (0, 0) without devices.
C13_BoundingBox ==
    pc # "panicked" =>
        /\ bounding_box =
              <<MaxOf({bounding_box_of(devices[i].canvas.kind)[1] : i \in Slots}),
                MaxOf({bounding_box_of(devices[i].canvas.kind)[2] : i \in Slots})>>
        /\ devices = <<>> => bounding_box = <<0, 0>>

\* A narrow device on the origin and a taller one, rotated and placed away
\* from the origin: the box is the taller one's, not the extent of the
\* layout.
C13_Witness ==
    /\ pc = "idle"
    /\ Len(devices) = 2
    /\ devices[1].canvas.kind = "mk2"
    /\ devices[2].canvas.kind = "s"
    /\ devices[2].rotation = "Left"
    /\ devices[2].x = 2
    /\ bounding_box = <<2, 2>>

\* a <= b, and |a - b|, on rationals
RLeq(a, b) == a[1] * b[2] <= b[1] * a[2]
RDist(a, b) == <<Abs(RSub(a, b)[1]), RSub(a, b)[2]>>

\* Four units of rounding: 4 * 2^-24 in f32.
FourRoundings == Rat(4, Pow2(MantissaBits))

\* The original statement of C14: remap(s, s, t) == t, remap(1, s, t) == 1
\* and remap(c, s, s) == c.
C14_AsClaimed ==
    /\ t_pc = "floor" => t_out = t_in.t
    /\ t_pc = "off" => t_out = One
    /\ t_pc = "same" => t_out = t_in.c

\* C14. Brightness remap anchors, for s and t strictly between 0 and 1 and
\* c from 0 to 1: remap(1, s, t) is exactly 1; remap(s, s, t) and
\* remap(c, s, s), which in exact arithmetic are t and c, are in the code's
\* floating point within four units of rounding of t and of c.
C14_RemapAnchors ==
    /\ t_pc = "off" => t_out = One
    /\ t_pc = "floor" =>
          /\ RLeq(RDist(t_out, t_in.t), FourRoundings)
          /\ transform_channel_exact(t_in.s, t_in.s, t_in.t) = t_in.t
    /\ t_pc = "same" =>
          /\ RLeq(RDist(t_out, t_in.c), FourRoundings)
          /\ transform_channel_exact(t_in.c, t_in.s, t_in.s) = t_in.c

\* A source floor remapped onto a target floor that the rounding of 1 - t
\* moves: the result is near t and is not t.
C14_Witness ==
    /\ t_pc = "floor"
    /\ t_out # t_in.t
    /\ RLeq(RDist(t_out, t_in.t), FourRoundings)

\* C15. Insert only if unclaimed: when add has met a coordinate that is
\* already claimed, the record stored there is still the one of the device
\* that owned it (the owner the diagnostic names, with its colors), and no
\* record of the map names a device index that has no slot.
C15_AsClaimed ==
    /\ (result.op = "add" /\ result.res = "overlap") =>
          LET key == <<result.diag.x, result.diag.y>>
          IN  /\ key \in DOMAIN coordinate_map
              /\ coordinate_map[key].device_index = result.diag.old
              /\ coordinate_map[key].color_new = last_written[key]
    /\ \A key \in DOMAIN coordinate_map :
          coordinate_map[key].device_index < Len(devices)

\* A step that is the rewrite loop of a flush call running to its end.
Rewritten == pc = "idle" /\ pc' = "flushing"

\* C16. Flush fan-out: the rewrite loop of flush leaves in every addressable
\* cell (x, y) of every device i the remap (source floor the layout's
\* light_threshold, target floor the device's lowest visible brightness) of
\* the pending color of the one record registered from that cell, the record
\* at the forward transform of (x, y), whose backward transform is (x, y)
\* again; every cell has exactly one such record, so each is written once,
\* and nothing else of a device changes.
C16_FlushFanOut ==
    [][Rewritten =>
          /\ Len(devices') = Len(devices)
          /\ \A i \in Slots :
                LET d == devices[i]
                    kind == d.canvas.kind
                IN  /\ devices'[i] = [d EXCEPT !.canvas.pending = devices'[i].canvas.pending]
                    /\ DOMAIN devices'[i].canvas.pending = Pads(kind)
                    /\ \A pad \in Pads(kind) :
                          LET g == Forward(d.rotation, pad[1], pad[2], d.x, d.y)
                          IN  /\ g \in DOMAIN coordinate_map
                              /\ coordinate_map[g].device_index = i - 1
                              /\ to_local(g[1], g[2], d.rotation, d.x, d.y) =
                                     Point(pad[1], pad[2])
                              /\ Writers(DOMAIN coordinate_map, i, pad) = {g}
                              /\ devices'[i].canvas.pending[pad] =
                                     transform_color(coordinate_map[g].color_new,
                                         light_threshold,
                                         lowest_visible_brightness_of(kind))]_vars

\* The rewrite loop has run on two devices, the second turned right and
\* placed beside the first: its painted first pad holds the remapped color.
C16_Witness ==
    /\ pc = "flushing"
    /\ flush_next = 0
    /\ Len(devices) = 2
    /\ devices[2].rotation = "Right"
    /\ devices[2].x = 2
    /\ devices[2].canvas.kind = "s"
    /\ devices[2].canvas.pending[<<0, 0>>] =
          transform_color(Painted, light_threshold, lowest_visible_brightness_of("s"))
    /\ devices[2].canvas.pending[<<0, 0>>] # Painted

\* C17. While no call has panicked, every key of the coordinate map names a
\* slot that exists, and its backward transform with that slot's rotation
\* and offset returns an addressable cell of that slot's device, so the
\* index and the unwrap in flush's rewrite loop never panic: no flush call
\* ends in a panic.
C17_FlushLookupSafe ==
    /\ pc # "panicked" =>
          \A key \in DOMAIN coordinate_map :
              /\ coordinate_map[key].device_index \in 0 .. Len(devices) - 1
              /\ LET d == devices[coordinate_map[key].device_index + 1]
                     l == to_local(key[1], key[2], d.rotation, d.x, d.y)
                 IN  /\ ~l.panic
                     /\ <<l.x, l.y>> \in Pads(d.canvas.kind)
                     /\ <<l.x, l.y>> \in DOMAIN d.canvas.pending
    /\ ~(result.op = "flush" /\ result.res = "panic")
    /\ result.op = "flush" => pc # "panicked"

\* A flush that returned Ok on a layout with a device turned upside down,
\* whose records sit at negative coordinates stored unsigned.
C17_Witness ==
    /\ pc = "idle"
    /\ result.op = "flush"
    /\ result.res = "Ok"
    /\ \E i \in Slots :
          /\ devices[i].rotation = "UpsideDown"
          /\ \E key \in DOMAIN coordinate_map :
                SlotOf(key) = i /\ key[1] > IMax

\* C18. Routing agrees with registration: while no call has panicked, the
\* coordinate at which a press or release at an addressable cell of device i
\* is reported is a key of the coordinate map whose record device i owns and
\* whose backward transform is that cell; so once flush has rewritten the
\* records, the cell that produced the event holds the remap of the color
\* last written at the reported coordinate.
C18_RoutingAgrees ==
    pc # "panicked" =>
        \A i \in Slots :
            \A pad \in Pads(devices[i].canvas.kind) :
                \A r \in {Routed(i, "Press", pad)} :
                LET key == <<r.msg.x, r.msg.y>>
                IN  /\ ~r.panic
                    /\ Routed(i, "Release", pad) =
                          [r EXCEPT !.msg = Message("Release", key[1], key[2])]
                    /\ key \in DOMAIN coordinate_map
                    /\ coordinate_map[key].device_index = i - 1
                    /\ PadOf(key) = pad
                    /\ result.op = "flush" =>
                          devices[i].canvas.pending[pad] =
                              transform_color(last_written[key], light_threshold,
                                  lowest_visible_brightness_of(devices[i].canvas.kind))

\* The client wrote a color at (-1, 0), where a device turned left reports
\* its cell (0, 1), and flushed: that cell holds the remap of the color.
C18_Witness ==
    /\ result.op = "flush"
    /\ pc # "panicked"
    /\ \E i \in Slots :
          /\ devices[i].rotation = "Left"
          /\ <<0, 1>> \in Pads(devices[i].canvas.kind)
          /\ Routed(i, "Press", <<0, 1>>).msg = Message("Press", UMax, 0)
          /\ last_written[<<UMax, 0>>] \in Palette
          /\ devices[i].canvas.pending[<<0, 1>>] =
                transform_color(last_written[<<UMax, 0>>], light_threshold,
                    lowest_visible_brightness_of(devices[i].canvas.kind))

\* C19. Backpressure liveness: a delivery that waits on a full channel keeps
\* waiting, its message held, through every step in which the consumer
\* receives nothing; with a consumer that keeps polling, every waiting
\* delivery eventually completes and every event a device delivered is
\* eventually received (no delivery waits for ever, and what a device has
\* delivered is again and again all received).
C19_Backpressure ==
    /\ [][\A i \in DeviceIds :
            (blocked[i].waiting /\ blocked[i].since = TotalReceived
                /\ received' = received) =>
                    blocked'[i] = blocked[i]]_vars
    /\ \A i \in DeviceIds : []<>(~blocked[i].waiting)
    /\ \A i \in DeviceIds : []<>(received[i] = sent[i])

\* A delivery that waited on the full channel and, the consumer having
\* received a message since, can now complete.
C19_Witness ==
    \E i \in DeviceIds :
        /\ blocked[i].waiting
        /\ blocked[i].since < TotalReceived
        /\ Len(queue) < QueueCapacity

\* The placement of a slot: what add stored with the device.
Placement(d) == <<d.canvas.kind, d.rotation, d.x, d.y>>

\* C20. Slot permanence: a successful add appends the new slot at the index
\* that was the number of slots before the call and stamps that index on every
\* record it inserts, one per pad of the new device; and no step that is not a
\* panicking add (a successful add, an add failed by a factory error, a
\* client write, a step of flush) removes a slot, changes the index,
\* rotation or offset of an existing slot, removes an existing pixel record
\* or changes the device index it names.
C20_SlotPermanence ==
    [][pc' # "panicked" =>
          /\ Len(devices') >= Len(devices)
          /\ \A i \in Slots : Placement(devices'[i]) = Placement(devices[i])
          /\ DOMAIN coordinate_map \subseteq DOMAIN coordinate_map'
          /\ \A key \in DOMAIN coordinate_map :
                coordinate_map'[key].device_index = coordinate_map[key].device_index
          /\ IF AddCalled
             THEN /\ Len(devices') = Len(devices) + 1
                  /\ Placement(devices'[Len(devices')]) =
                         <<result'.args.kind, result'.args.rotation,
                           result'.args.x, result'.args.y>>
                  /\ DOMAIN coordinate_map' \ DOMAIN coordinate_map =
                         {GlobalOfPad(result'.args, k) :
                             k \in 1 .. Len(PadSeq(result'.args.kind))}
                  /\ \A key \in DOMAIN coordinate_map' \ DOMAIN coordinate_map :
                         coordinate_map'[key].device_index = Len(devices)
             ELSE /\ Len(devices') = Len(devices)
                  /\ DOMAIN coordinate_map' = DOMAIN coordinate_map]_vars

\* A second device has been added, another call having come between the two
\* adds: both slots and the records of both are there.
C20_Witness ==
    /\ pc = "idle"
    /\ result.op = "add"
    /\ result.res = "Ok"
    /\ Len(devices) = 2
    /\ ops = 3
    /\ Placement(devices[1]) # Placement(devices[2])
    /\ \E key \in DOMAIN coordinate_map : coordinate_map[key].device_index = 0
    /\ \E key \in DOMAIN coordinate_map : coordinate_map[key].device_index = 1

=============================================================================
